---------------------------- MODULE Spec2Model ----------------------------
(***************************************************************************)
(* Model of the PR Reviewer extension (src/README.md, lines 47-444: the    *)
(* extension's TypeScript source).                                         *)
(*                                                                         *)
(* Strings are sequences of one-character strings, so that trimming,       *)
(* regular-expression matching, JSON parsing and path normalisation are    *)
(* computed character by character as the code computes them.              *)
(* JSON numbers are kept in tenths (2.5 is 25) so that a fractional line   *)
(* number survives Math.max as it does in JavaScript.                      *)
(*                                                                         *)
(* A value that is used several times is handed to an operator as a        *)
(* parameter rather than named in a LET, so that every definition is       *)
(* evaluated once where it is used.                                        *)
(***************************************************************************)
EXTENDS Integers, Sequences, FiniteSets, TLC

-----------------------------------------------------------------------------
(* Characters and basic string operations                                  *)

\* White space as String.prototype.trim and the white-space class see it
\* (the part of it the inputs of the model use).
WhiteSpace == {" ", "\n", "\t"}

Digits == <<"0", "1", "2", "3", "4", "5", "6", "7", "8", "9">>

IsDigit(c) == \E k \in 1..10 : Digits[k] = c

DigitVal(c) == (CHOOSE k \in 1..10 : Digits[k] = c) - 1

MinOf(S) == CHOOSE x \in S : \A y \in S : x <= y

MaxOf(S) == 0 - MinOf({0 - x : x \in S})

Max2(a, b) == IF a >= b THEN a ELSE b

\* s.slice(from - 1): the characters of s from position `from` (1-based) on.
From(s, from) == SubSeq(s, from, Len(s))

\* Does the literal lit occur in s at position i ?
MatchAt(s, i, lit) ==
    /\ i >= 1
    /\ i + Len(lit) - 1 <= Len(s)
    /\ \A k \in 1..Len(lit) : s[i + k - 1] = lit[k]

RECURSIVE SkipWs(_, _)
\* First position >= i of s that holds no white space (Len(s) + 1 if none).
SkipWs(s, i) ==
    IF i > Len(s) \/ s[i] \notin WhiteSpace THEN i ELSE SkipWs(s, i + 1)

\* s with the positions outside `keep` (its non-blank positions) cut off.
TrimTo(s, keep) ==
    IF keep = {} THEN <<>> ELSE SubSeq(s, MinOf(keep), MaxOf(keep))

\* String.prototype.trim
Trim(s) == TrimTo(s, {j \in 1..Len(s) : s[j] \notin WhiteSpace})

UpperCase == <<"A", "B", "C", "D", "E", "F", "G", "H", "I", "J", "K", "L", "M",
               "N", "O", "P", "Q", "R", "S", "T", "U", "V", "W", "X", "Y", "Z">>

LowerCase == <<"a", "b", "c", "d", "e", "f", "g", "h", "i", "j", "k", "l", "m",
               "n", "o", "p", "q", "r", "s", "t", "u", "v", "w", "x", "y", "z">>

\* The lower-case form of a character (what the i flag compares).
Lower(c) ==
    IF \E k \in 1..26 : UpperCase[k] = c
    THEN LowerCase[CHOOSE k \in 1..26 : UpperCase[k] = c]
    ELSE c

\* MatchAt, ignoring case (the i flag); lit is in lower case.
MatchAtI(s, i, lit) ==
    /\ i >= 1
    /\ i + Len(lit) - 1 <= Len(s)
    /\ \A k \in 1..Len(lit) : Lower(s[i + k - 1]) = lit[k]

RECURSIVE PiecesFrom(_, _, _)
\* The pieces of s that start after the cut c, the cuts being the positions
\* of the separator, 0 and Len(s) + 1.
PiecesFrom(s, cuts, c) ==
    IF MinOf({d \in cuts : d > c}) = Len(s) + 1
    THEN <<SubSeq(s, c + 1, Len(s))>>
    ELSE <<SubSeq(s, c + 1, MinOf({d \in cuts : d > c}) - 1)>>
         \o PiecesFrom(s, cuts, MinOf({d \in cuts : d > c}))

\* s.split(sep) for a one-character separator: the pieces of s between the
\* separators (always at least one piece).
SplitOn(s, sep) ==
    PiecesFrom(s, {0} \cup {j \in 1..Len(s) : s[j] = sep} \cup {Len(s) + 1}, 0)

\* s.split('\n')
SplitLines(s) == SplitOn(s, "\n")

-----------------------------------------------------------------------------
(* JSON values and JSON.parse                                              *)

\* A JavaScript value: t is its type tag; the other fields are used by the
\* types that need them (n: number in tenths, s: string, a: array elements,
\* m: object members in source order, each [k |-> key, v |-> value]).
JUndef    == [t |-> "undef", n |-> 0, s |-> <<>>, a |-> <<>>, m |-> <<>>]
JNull     == [t |-> "null",  n |-> 0, s |-> <<>>, a |-> <<>>, m |-> <<>>]
JBool(b)  == [t |-> "bool",  n |-> IF b THEN 1 ELSE 0, s |-> <<>>, a |-> <<>>, m |-> <<>>]
JNum(n)   == [t |-> "num",   n |-> n, s |-> <<>>, a |-> <<>>, m |-> <<>>]
JStr(s)   == [t |-> "str",   n |-> 0, s |-> s, a |-> <<>>, m |-> <<>>]
JArr(a)   == [t |-> "arr",   n |-> 0, s |-> <<>>, a |-> a, m |-> <<>>]
JObj(m)   == [t |-> "obj",   n |-> 0, s |-> <<>>, a |-> <<>>, m |-> m]

\* The result of a parsing step: ok, the value and the next position.
POk(v, i) == [ok |-> TRUE, v |-> v, i |-> i]
PFail     == [ok |-> FALSE, v |-> JUndef, i |-> 0]

RECURSIVE BackslashRun(_, _, _)
\* The number of backslashes that stand immediately before position k,
\* counted back no further than position lo.
BackslashRun(s, k, lo) ==
    IF k - 1 < lo \/ s[k - 1] # "\\" THEN 0 ELSE 1 + BackslashRun(s, k - 1, lo)

\* The character an escape sequence stands for.
Unescape(c) ==
    CASE c = "n" -> "\n" [] c = "t" -> "\t" [] OTHER -> c

RECURSIVE Unescaped(_, _, _, _)
\* The characters lo..hi of a string literal with the backslashes in `intro`
\* (those that introduce an escape) dropped and the escaped characters named.
Unescaped(s, lo, hi, intro) ==
    IF lo > hi THEN <<>>
    ELSE IF lo = hi
    THEN IF lo \in intro THEN <<>>
         ELSE IF lo - 1 \in intro THEN <<Unescape(s[lo])>>
         ELSE <<s[lo]>>
    ELSE Unescaped(s, lo, (lo + hi) \div 2, intro)
         \o Unescaped(s, ((lo + hi) \div 2) + 1, hi, intro)

\* The string literal s[i..j-1], j its closing quote, intro its backslashes
\* that introduce an escape. A control character or an unknown escape is a
\* syntax error.
StringWith(s, i, j, intro) ==
    IF \/ \E k \in i..(j - 1) : s[k] \in {"\n", "\t"} /\ k - 1 \notin intro
       \/ \E k \in intro : s[k + 1] \notin {"\"", "\\", "/", "n", "t"}
    THEN PFail
    ELSE IF intro = {} THEN POk(JStr(SubSeq(s, i, j - 1)), j + 1)
    ELSE POk(JStr(Unescaped(s, i, j - 1, intro)), j + 1)

\* A backslash introduces an escape when an even number of backslashes
\* stands before it.
StringBetween(s, i, j) ==
    StringWith(s, i, j,
               {k \in i..(j - 1) : s[k] = "\\" /\ BackslashRun(s, k, i) % 2 = 0})

StringUpTo(s, i, ends) ==
    IF ends = {} THEN PFail ELSE StringBetween(s, i, MinOf(ends))

\* The JSON string whose opening quote precedes position i: it ends at the
\* first quote that no backslash escapes.
ParseStringBody(s, i) ==
    StringUpTo(s, i,
               {j \in i..Len(s) : s[j] = "\"" /\ BackslashRun(s, j, i) % 2 = 0})

RECURSIVE DigitsValue(_)
\* The number a non-empty run of digits denotes.
DigitsValue(ds) ==
    IF Len(ds) = 1 THEN DigitVal(ds[1])
    ELSE 10 * DigitsValue(SubSeq(ds, 1, Len(ds) - 1)) + DigitVal(ds[Len(ds)])

RECURSIVE DigitsEnd(_, _)
\* End (exclusive) of the run of digits that starts at position i.
DigitsEnd(s, i) ==
    IF i > Len(s) \/ ~IsDigit(s[i]) THEN i ELSE DigitsEnd(s, i + 1)

\* Numbers are kept in tenths, so one fractional digit is read: the digits
\* s[b..e-1], the point at e and the fraction up to fe.
ParseFraction(s, b, e, fe) ==
    IF fe # e + 2 THEN PFail
    ELSE POk(JNum(10 * DigitsValue(SubSeq(s, b, e - 1)) + DigitVal(s[e + 1])), fe)

\* int (. digit)? with the integer digits s[b..e-1]: no leading zero.
ParseInt(s, b, e) ==
    IF e = b THEN PFail
    ELSE IF e - b > 1 /\ s[b] = "0" THEN PFail
    ELSE IF e <= Len(s) /\ s[e] = "." THEN ParseFraction(s, b, e, DigitsEnd(s, e + 1))
    ELSE POk(JNum(10 * DigitsValue(SubSeq(s, b, e - 1))), e)

Negated(r) == IF r.ok THEN POk(JNum(0 - r.v.n), r.i) ELSE r

\* A JSON number at position i: -? int (. digit)?
ParseNumber(s, i) ==
    IF i <= Len(s) /\ s[i] = "-"
    THEN Negated(ParseInt(s, i + 1, DigitsEnd(s, i + 1)))
    ELSE ParseInt(s, i, DigitsEnd(s, i))

RECURSIVE ParseValue(_, _), ParseElements(_, _, _), ParseMembers(_, _, _)

\* After an element vs of an array, at position j: "]" ends the array, ","
\* announces the next element.
ElementSep(s, j, vs) ==
    IF j > Len(s) THEN PFail
    ELSE IF s[j] = "]" THEN POk(JArr(vs), j + 1)
    ELSE IF s[j] = "," THEN ParseElements(s, SkipWs(s, j + 1), vs)
    ELSE PFail

AfterElement(s, r, acc) ==
    IF ~r.ok THEN PFail ELSE ElementSep(s, SkipWs(s, r.i), Append(acc, r.v))

\* The elements of an array: value (, value)* ]
ParseElements(s, i, acc) == AfterElement(s, ParseValue(s, i), acc)

\* After a member of an object, at position j: "}" ends the object, ","
\* announces the next member.
MemberSep(s, j, ms) ==
    IF j > Len(s) THEN PFail
    ELSE IF s[j] = "}" THEN POk(JObj(ms), j + 1)
    ELSE IF s[j] = "," THEN ParseMembers(s, SkipWs(s, j + 1), ms)
    ELSE PFail

AfterMember(s, r, key, acc) ==
    IF ~r.ok THEN PFail
    ELSE MemberSep(s, SkipWs(s, r.i), Append(acc, [k |-> key, v |-> r.v]))

AfterColon(s, c, key, acc) ==
    IF c > Len(s) \/ s[c] # ":" THEN PFail
    ELSE AfterMember(s, ParseValue(s, SkipWs(s, c + 1)), key, acc)

AfterKey(s, k, acc) ==
    IF ~k.ok THEN PFail ELSE AfterColon(s, SkipWs(s, k.i), k.v.s, acc)

\* The members of an object: string : value (, string : value)* }
ParseMembers(s, i, acc) ==
    IF i > Len(s) \/ s[i] # "\"" THEN PFail
    ELSE AfterKey(s, ParseStringBody(s, i + 1), acc)

\* After "{" and white space, at position j.
ObjectFrom(s, j) ==
    IF j <= Len(s) /\ s[j] = "}" THEN POk(JObj(<<>>), j + 1)
    ELSE ParseMembers(s, j, <<>>)

\* After "[" and white space, at position j.
ArrayFrom(s, j) ==
    IF j <= Len(s) /\ s[j] = "]" THEN POk(JArr(<<>>), j + 1)
    ELSE ParseElements(s, j, <<>>)

\* A JSON value at position i (white space before it already skipped).
ParseValue(s, i) ==
    IF i > Len(s) THEN PFail
    ELSE IF s[i] = "{" THEN ObjectFrom(s, SkipWs(s, i + 1))
    ELSE IF s[i] = "[" THEN ArrayFrom(s, SkipWs(s, i + 1))
    ELSE IF s[i] = "\"" THEN ParseStringBody(s, i + 1)
    ELSE IF MatchAt(s, i, <<"n", "u", "l", "l">>) THEN POk(JNull, i + 4)
    ELSE IF MatchAt(s, i, <<"t", "r", "u", "e">>) THEN POk(JBool(TRUE), i + 4)
    ELSE IF MatchAt(s, i, <<"f", "a", "l", "s", "e">>) THEN POk(JBool(FALSE), i + 5)
    ELSE ParseNumber(s, i)

\* The value must be followed by white space only.
WholeValue(s, r) ==
    IF ~r.ok THEN PFail
    ELSE IF SkipWs(s, r.i) # Len(s) + 1 THEN PFail
    ELSE r

\* JSON.parse(s): ok is FALSE where JSON.parse throws a SyntaxError.
JSONParse(s) == WholeValue(s, ParseValue(s, SkipWs(s, 1)))

\* The last member of the members m that is named key, undefined if none.
LastNamed(m, key, hits) ==
    IF hits = {} THEN JUndef ELSE m[MaxOf(hits)].v

\* v[key]: the value of the last member named key, undefined if there is none
\* or v is not an object (a property read of a primitive or an array).
Get(v, key) ==
    IF v.t # "obj" THEN JUndef
    ELSE LastNamed(v.m, key, {j \in 1..Len(v.m) : v.m[j].k = key})

-----------------------------------------------------------------------------
(* JavaScript coercions used by the parser and the presentation code       *)

\* The property names and string constants of the source, as characters.
K_summary    == <<"s", "u", "m", "m", "a", "r", "y">>
K_issues     == <<"i", "s", "s", "u", "e", "s">>
K_file       == <<"f", "i", "l", "e">>
K_startLine  == <<"s", "t", "a", "r", "t", "L", "i", "n", "e">>
K_endLine    == <<"e", "n", "d", "L", "i", "n", "e">>
K_severity   == <<"s", "e", "v", "e", "r", "i", "t", "y">>
K_message    == <<"m", "e", "s", "s", "a", "g", "e">>
K_suggestion == <<"s", "u", "g", "g", "e", "s", "t", "i", "o", "n">>
K_response   == <<"r", "e", "s", "p", "o", "n", "s", "e">>
K_models     == <<"m", "o", "d", "e", "l", "s">>
K_name       == <<"n", "a", "m", "e">>
S_blocker    == <<"b", "l", "o", "c", "k", "e", "r">>
S_major      == <<"m", "a", "j", "o", "r">>
S_nit        == <<"n", "i", "t">>

\* The values that are false in a condition or on the left of ||.
Falsy(v) ==
    \/ v.t \in {"undef", "null"}
    \/ v.t = "bool" /\ v.n = 0
    \/ v.t = "num" /\ v.n = 0
    \/ v.t = "str" /\ v.s = <<>>

\* a || b
OrElse(a, b) == IF Falsy(a) THEN b ELSE a

RECURSIVE NatToStr(_)
\* The decimal digits of a natural number.
NatToStr(n) ==
    IF n < 10 THEN <<Digits[n + 1]>>
    ELSE NatToStr(n \div 10) \o <<Digits[(n % 10) + 1]>>

\* String(x) of a non-negative number kept in tenths.
AbsToStr(a) ==
    NatToStr(a \div 10) \o (IF a % 10 = 0 THEN <<>> ELSE <<".", Digits[(a % 10) + 1]>>)

\* String(x) of a number kept in tenths.
NumToStr(n) == IF n < 0 THEN <<"-">> \o AbsToStr(0 - n) ELSE AbsToStr(n)

RECURSIVE ToStr(_), JoinComma(_)

\* An element of an array in Array.prototype.join(): null and undefined give
\* the empty string.
ElemStr(v) == IF v.t \in {"null", "undef"} THEN <<>> ELSE ToStr(v)

\* Array.prototype.join()
JoinComma(a) ==
    IF a = <<>> THEN <<>>
    ELSE IF Len(a) = 1 THEN ElemStr(Head(a))
    ELSE ElemStr(Head(a)) \o <<",">> \o JoinComma(Tail(a))

\* String(v)
ToStr(v) ==
    CASE v.t = "str"   -> v.s
      [] v.t = "num"   -> NumToStr(v.n)
      [] v.t = "bool"  -> IF v.n = 1 THEN <<"t", "r", "u", "e">>
                          ELSE <<"f", "a", "l", "s", "e">>
      [] v.t = "null"  -> <<"n", "u", "l", "l">>
      [] v.t = "undef" -> <<"u", "n", "d", "e", "f", "i", "n", "e", "d">>
      [] v.t = "arr"   -> JoinComma(v.a)
      [] OTHER         -> <<"[", "o", "b", "j", "e", "c", "t", " ",
                            "O", "b", "j", "e", "c", "t", "]">>

\* A number or NaN.
Num(n) == [nan |-> FALSE, n |-> n]
NaN    == [nan |-> TRUE, n |-> 0]

NegNum(r) == IF r.nan THEN NaN ELSE Num(0 - r.n)

\* digits (. digit)? that fills t, the digits being t[1..e-1]; else NaN.
DecimalFrom(t, e) ==
    IF e = 1 THEN NaN
    ELSE IF e = Len(t) + 1 THEN Num(10 * DigitsValue(t))
    ELSE IF t[e] = "." /\ e + 1 = Len(t) /\ IsDigit(t[e + 1])
    THEN Num(10 * DigitsValue(SubSeq(t, 1, e - 1)) + DigitVal(t[e + 1]))
    ELSE NaN

\* Number(t) of a trimmed string: '' is 0, a decimal literal
\* [+-]? digits (. digit)? is its value, anything else is NaN.
TrimmedToNumber(t) ==
    IF t = <<>> THEN Num(0)
    ELSE IF t[1] = "-" THEN NegNum(DecimalFrom(From(t, 2), DigitsEnd(t, 2) - 1))
    ELSE IF t[1] = "+" THEN DecimalFrom(From(t, 2), DigitsEnd(t, 2) - 1)
    ELSE DecimalFrom(t, DigitsEnd(t, 1))

\* Number(s) of a string: white space at its ends does not count.
StrToNumber(s) == TrimmedToNumber(Trim(s))

\* Number(v)
ToNumber(v) ==
    CASE v.t = "num"   -> Num(v.n)
      [] v.t = "str"   -> StrToNumber(v.s)
      [] v.t = "bool"  -> Num(10 * v.n)
      [] v.t = "null"  -> Num(0)
      [] v.t = "undef" -> NaN
      [] v.t = "arr"   -> StrToNumber(ToStr(v))
      [] OTHER         -> NaN

\* r || d  for a number r: NaN and 0 give d.
OrNum(r, d) == IF r.nan \/ r.n = 0 THEN d ELSE r.n

\* Number(v) || d   (d in tenths)
NumberOr(v, d) == OrNum(ToNumber(v), d)

\* The members of v with the ones at `hits` (those named key) given the value
\* val, or with the member added at the end when there is none.
PutMember(v, key, val, hits) ==
    IF hits = {}
    THEN [v EXCEPT !.m = Append(v.m, [k |-> key, v |-> val])]
    ELSE [v EXCEPT !.m = [j \in 1..Len(v.m) |->
                             IF j \in hits THEN [k |-> key, v |-> val] ELSE v.m[j]]]

\* obj[key] = val on an object or an array carrying properties: the member is
\* replaced where it stands, or added at the end.
SetProp(v, key, val) ==
    PutMember(v, key, val, {j \in 1..Len(v.m) : v.m[j].k = key})

\* it[key] of an issue: arrays carry the properties assigned to them too.
Prop(v, key) ==
    IF v.t \notin {"obj", "arr"} THEN JUndef
    ELSE LastNamed(v.m, key, {j \in 1..Len(v.m) : v.m[j].k = key})

-----------------------------------------------------------------------------
(* Response Parser                                                         *)

\* The backquote character (a TLA+ string cannot hold one, so it is named).
BackQuote == "bq"

Fence == <<BackQuote, BackQuote, BackQuote>>

\* The replace with the slash left out of its expression: a leading c removed.
StripLeadNoSlash(s, c) ==
    IF MatchAt(s, 1, <<c>>) THEN From(s, 2) ELSE s

\* The replace of a leading "a/" (or "b/") by nothing: one leading c "/" removed.
StripLead(s, c) ==
    IF MatchAt(s, 1, <<c, "/">>) THEN From(s, 3) ELSE s

RECURSIVE SlashEnd(_, _)
\* End (exclusive) of the run of "/" that starts at position i.
SlashEnd(s, i) ==
    IF i > Len(s) \/ s[i] # "/" THEN i ELSE SlashEnd(s, i + 1)

\* The third replace: a leading "./" with the slashes that follow it, or
\* else a leading run of "/", removed (one of the two alternatives, once).
StripDotSlash(s) ==
    IF MatchAt(s, 1, <<".", "/">>) THEN From(s, SlashEnd(s, 2))
    ELSE IF MatchAt(s, 1, <<"/">>) THEN From(s, SlashEnd(s, 1))
    ELSE s

\* The trim and the three replaces that normalise the file of an issue.
NormalizePath(s) ==
    StripDotSlash(StripLead(StripLead(Trim(s), "a"), "b"))

\* The two statements that normalise it.file.
NormalizeFile(raw) == NormalizePath(ToStr(OrElse(raw, JStr(<<>>))))

\* The positions from p on where three backquotes stand.
ClosesFrom(text, p) == {j \in p..Len(text) : MatchAt(text, j, Fence)}

\* The group of a fence whose text starts at p: the shortest text up to the
\* next three backquotes.
FenceGroup(text, p) ==
    [found |-> TRUE, group |-> SubSeq(text, p, MinOf(ClosesFrom(text, p)) - 1)]

\* The match at the leftmost of the positions `good`, n the opener's length.
FenceFrom(text, n, good) ==
    IF good = {} THEN [found |-> FALSE, group |-> <<>>]
    ELSE FenceGroup(text, SkipWs(text, MinOf(good) + n))

\* One of the two fence expressions: the opener (three backquotes, with or
\* without the json tag), white space, the shortest text up to the next three
\* backquotes. The leftmost match: found, and the captured group.
FenceMatch(text, opener, ci) ==
    FenceFrom(text, Len(opener),
              {i \in 1..Len(text) :
                  /\ IF ci THEN MatchAtI(text, i, opener) ELSE MatchAt(text, i, opener)
                  /\ ClosesFrom(text, SkipWs(text, i + Len(opener))) # {}})

\* fence ? fence[1] : text, fence being the first of the two matches found.
FirstFound(f1, f2, text) ==
    IF f1.found THEN f1.group
    ELSE IF f2.found THEN f2.group
    ELSE text

\* The text handed on to the brace expression.
Candidate(text) ==
    FirstFound(FenceMatch(text, Fence \o <<"j", "s", "o", "n">>, TRUE),
               FenceMatch(text, Fence, FALSE),
               text)

\* The candidate from the first of `opens` to the last of `closes` after it.
BraceMatch(candidate, opens, closes) ==
    IF opens = {} \/ closes = {} THEN candidate
    ELSE IF MaxOf(closes) < MinOf(opens) THEN candidate
    ELSE SubSeq(candidate, MinOf(opens), MaxOf(closes))

\* The brace expression: from the first "{" to the last "}" after it, or the
\* candidate itself when there is no such pair.
JsonStr(candidate) ==
    BraceMatch(candidate,
               {i \in 1..Len(candidate) : candidate[i] = "{"},
               {j \in 1..Len(candidate) : candidate[j] = "}"})

\* it.startLine = Math.max(1, Number(it.startLine) || 1)
SetStart(it) ==
    SetProp(it, K_startLine, JNum(Max2(10, NumberOr(Prop(it, K_startLine), 10))))

\* Math.max(start, Number(it.endLine) || start) assigned to it.endLine
SetEndFrom(it, start) ==
    SetProp(it, K_endLine, JNum(Max2(start, NumberOr(Prop(it, K_endLine), start))))

\* it.endLine = Math.max(it.startLine, Number(it.endLine) || it.startLine)
SetEnd(it) == SetEndFrom(it, Prop(it, K_startLine).n)

\* ['blocker','major','nit'].includes(sev)
KnownSeverity(sev) == sev.t = "str" /\ sev.s \in {S_blocker, S_major, S_nit}

\* if (!['blocker','major','nit'].includes(it.severity)) it.severity = 'major'
SetSeverity(it) ==
    IF KnownSeverity(Prop(it, K_severity)) THEN it
    ELSE SetProp(it, K_severity, JStr(S_major))

\* The two assignments to it.file.
SetFile(it) == SetProp(it, K_file, JStr(NormalizeFile(Prop(it, K_file))))

\* The body of the loop over the issues: the issue with its four fields set.
SanitizeIssue(it) == SetFile(SetSeverity(SetEnd(SetStart(it))))

\* An element the loop throws a TypeError on: a property read of null, or,
\* the module being strict code, a property assignment to a primitive.
ThrowsOnAssign(it) == it.t \notin {"obj", "arr"}

SummaryMax == 800

\* The fallback without its slice.
FallbackWhole(text) == [summary |-> text, issues |-> JArr(<<>>)]

\* text.slice(0, 800)
Fallback(text) ==
    [summary |-> SubSeq(text, 1, IF Len(text) < SummaryMax THEN Len(text) ELSE SummaryMax),
     issues |-> JArr(<<>>)]

\* Array.isArray(parsed.issues) ? parsed.issues : []
IssuesOf(raw) == IF raw.t = "arr" THEN raw.a ELSE <<>>

\* The loop over the issues and the return of the try block; an element the
\* loop throws on sends the parser to its catch clause.
SanitizedReview(text, parsed, issues) ==
    IF \E j \in 1..Len(issues) : ThrowsOnAssign(issues[j]) THEN Fallback(text)
    ELSE [summary |-> ToStr(OrElse(Get(parsed, K_summary), JStr(<<>>))),
          issues |-> JArr([j \in 1..Len(issues) |-> SanitizeIssue(issues[j])])]

\* The try block on the result r of JSON.parse: a syntax error, and the read
\* of parsed.issues on null, go to the catch clause.
ReviewFrom(text, r) ==
    IF ~r.ok THEN Fallback(text)
    ELSE IF r.v.t = "null" THEN Fallback(text)
    ELSE SanitizedReview(text, r.v, IssuesOf(Get(r.v, K_issues)))

\* safeParseReview after the trim.
ParseTrimmed(text) == ReviewFrom(text, JSONParse(JsonStr(Candidate(text))))

safeParseReview(modelText) == ParseTrimmed(Trim(modelText))

-----------------------------------------------------------------------------
(* Spec Filter                                                             *)

S_require     == <<"r", "e", "q", "u", "i", "r", "e">>
S_exclamation == <<"e", "x", "c", "l", "a", "m", "a", "t", "i", "o", "n">>
S_mark        == <<"m", "a", "r", "k">>

NoRule == [ok |-> FALSE, digits |-> <<>>]

\* The rest of the rule expression, the digits being acc[b..c-1] and d the
\* end of the white space after them: white space, "exclamation", optional
\* white space, "mark" (an "s" may follow).
RuleWords(acc, b, c, d) ==
    IF /\ d > c
       /\ MatchAtI(acc, d, S_exclamation)
       /\ MatchAtI(acc, SkipWs(acc, d + Len(S_exclamation)), S_mark)
    THEN [ok |-> TRUE, digits |-> SubSeq(acc, b, c - 1)]
    ELSE NoRule

\* The digits of the rule, from b to c (exclusive).
RuleDigits(acc, b, c) ==
    IF c = b THEN NoRule ELSE RuleWords(acc, b, c, SkipWs(acc, c))

\* The white space after "require", from a to b (exclusive).
RuleCount(acc, a, b) ==
    IF b = a THEN NoRule ELSE RuleDigits(acc, b, DigitsEnd(acc, b))

\* The rule expression at position i of the acceptance text: "require",
\* white space, digits, white space, "exclamation", optional white space,
\* "mark", case ignored. ok and the captured digits.
RuleAt(acc, i) ==
    IF ~MatchAtI(acc, i, S_require) THEN NoRule
    ELSE RuleCount(acc, i + Len(S_require), SkipWs(acc, i + Len(S_require)))

FirstRule(acc, hits) ==
    IF hits = {} THEN NoRule ELSE RuleAt(acc, MinOf(hits))

\* acceptance.match(...): the leftmost match of the rule expression.
RuleMatch(acc) == FirstRule(acc, {i \in 1..Len(acc) : RuleAt(acc, i).ok})

\* (line.match(/!/g) || []).length
CountBang(line) == Cardinality({j \in 1..Len(line) : line[j] = "!"})

\* /exclamation/i.test(s)
HasExclamation(s) == \E i \in 1..Len(s) : MatchAtI(s, i, S_exclamation)

\* /exclamation/i.test(x): x is turned into a string first.
MentionsExclamation(v) == HasExclamation(ToStr(v))

\* Math.max(0, n - 1) in tenths; NaN (here -1) where n is no number.
LineIndex(n) == IF n.nan THEN 0 - 1 ELSE Max2(0, n.n - 10)

\* lines[idx] ?? '' : an index that is no whole number, or NaN, or past the
\* last line, reads undefined.
LineOf(lines, idx) ==
    IF idx >= 0 /\ idx % 10 = 0 /\ (idx \div 10) + 1 <= Len(lines)
    THEN lines[(idx \div 10) + 1]
    ELSE <<>>

\* text.split('\n')[Math.max(0, startLine - 1)] ?? ''
LineAt(text, start) == LineOf(SplitLines(text), LineIndex(ToNumber(start)))

\* The Map of file texts: a set of [key, text] pairs, at most one per key.
MapHas(map, key) == \E e \in map : e.key = key

MapGet(map, key) == (CHOOSE e \in map : e.key = key).text

MapSet(map, key, text) ==
    {e \in map : e.key # key} \cup {[key |-> key, text |-> text]}

\* The predicate of the filter once the Map has answered with a text: an empty
\* text is falsy, like no text.
KeepWithText(it, required, text) ==
    IF text = <<>> THEN TRUE
    ELSE ~(/\ CountBang(LineAt(text, Prop(it, K_startLine))) = required
           /\ MentionsExclamation(Prop(it, K_message)))

\* The predicate handed to issues.filter: TRUE keeps the issue.
KeepIssue(it, required, fileTextByPath) ==
    IF ~MapHas(fileTextByPath, Prop(it, K_file)) THEN TRUE
    ELSE KeepWithText(it, required, MapGet(fileTextByPath, Prop(it, K_file)))

RECURSIVE FilterSeq(_, _, _)
\* Array.prototype.filter with KeepIssue.
FilterSeq(issues, required, fileTextByPath) ==
    IF issues = <<>> THEN <<>>
    ELSE (IF KeepIssue(Head(issues), required, fileTextByPath)
          THEN <<Head(issues)>> ELSE <<>>)
         \o FilterSeq(Tail(issues), required, fileTextByPath)

\* The filter once the rule expression has been matched.
FilterWith(issues, m, fileTextByPath) ==
    IF ~m.ok THEN issues
    ELSE FilterSeq(issues, DigitsValue(m.digits), fileTextByPath)

\* filterIssuesAgainstSpec on an array of issues (a sequence).
filterIssuesAgainstSpec(issues, acceptance, fileTextByPath) ==
    FilterWith(issues, RuleMatch(acceptance), fileTextByPath)

-----------------------------------------------------------------------------
(* Paths, diagnostics and the panel                                        *)

\* The workspace folder of the model.
Root == <<"/", "w">>

\* One segment h of a path put after the segments acc: "" and "." are
\* dropped, ".." takes the last segment away (at the root it is dropped).
Pushed(acc, h) ==
    IF h = <<>> \/ h = <<".">> THEN acc
    ELSE IF h = <<".", ".">>
    THEN (IF acc = <<>> THEN acc ELSE SubSeq(acc, 1, Len(acc) - 1))
    ELSE Append(acc, h)

RECURSIVE Segments(_, _)
\* The segments of a path as path.normalize resolves them.
Segments(parts, acc) ==
    IF parts = <<>> THEN acc
    ELSE Segments(Tail(parts), Pushed(acc, Head(parts)))

RECURSIVE JoinSlash(_)
JoinSlash(segs) ==
    IF segs = <<>> THEN <<>>
    ELSE <<"/">> \o Head(segs) \o JoinSlash(Tail(segs))

\* The absolute path `all` with its segments resolved; a trailing separator
\* is kept.
Resolved(all, segs) ==
    IF segs = <<>> THEN <<"/">>
    ELSE IF all[Len(all)] = "/" THEN JoinSlash(segs) \o <<"/">>
    ELSE JoinSlash(segs)

PathNormalize(all) == Resolved(all, Segments(SplitOn(all, "/"), <<>>))

\* path.join(root, rel) for an absolute root (POSIX).
PathJoin(root, rel) ==
    PathNormalize(IF rel = <<>> THEN root ELSE root \o <<"/">> \o rel)

\* path.isAbsolute (POSIX)
IsAbsolute(p) == p # <<>> /\ p[1] = "/"

\* The fourth replace of toAbsolutePath: a leading run of "/" removed.
StripSlashes(s) ==
    IF MatchAt(s, 1, <<"/">>) THEN From(s, SlashEnd(s, 1)) ELSE s

\* The third replace of toAbsolutePath: a leading "./" and the slashes after it.
StripDot(s) ==
    IF MatchAt(s, 1, <<".", "/">>) THEN From(s, SlashEnd(s, 2)) ELSE s

\* The return of toAbsolutePath.
AbsoluteOf(cleaned, workspaceRoot) ==
    IF IsAbsolute(cleaned) THEN cleaned ELSE PathJoin(workspaceRoot, cleaned)

\* toAbsolutePath(p, workspaceRoot) of a value p: throws is TRUE where the
\* code throws a TypeError (p is truthy and no string, so has no replace).
toAbsolutePath(p, workspaceRoot) ==
    IF Falsy(p) THEN [throws |-> FALSE, path |-> workspaceRoot]
    ELSE IF p.t # "str" THEN [throws |-> TRUE, path |-> <<>>]
    ELSE [throws |-> FALSE,
          path |-> AbsoluteOf(StripSlashes(StripDot(StripLead(StripLead(p.s, "a"), "b"))),
                              workspaceRoot)]

\* it.file of an element of the issues: throws on null and undefined.
ReadThrows(it) == it.t \in {"null", "undef"}

\* n - 1 on a number in tenths, or NaN.
Pred(n) == IF n.nan THEN NaN ELSE Num(n.n - 10)

\* x - 1 on a value.
MinusOne(v) == Pred(ToNumber(v))

\* 'blocker' is an Error, 'major' a Warning, anything else a Hint.
SeverityOf(sev) ==
    IF sev = JStr(S_blocker) THEN "Error"
    ELSE IF sev = JStr(S_major) THEN "Warning"
    ELSE "Hint"

\* The diagnostic with its two positions; the host's Position constructor
\* rejects a negative line.
DiagnosticAt(it, start, end) ==
    [throws |-> (~start.nan /\ start.n < 0) \/ (~end.nan /\ end.n < 0),
     startLine |-> start,
     endLine |-> end,
     message |-> Prop(it, K_message),
     severity |-> SeverityOf(Prop(it, K_severity))]

toDiagnostic(it) ==
    DiagnosticAt(it, MinusOne(Prop(it, K_startLine)), MinusOne(Prop(it, K_endLine)))

\* The registry of diagnostics: a function from the resource paths that have
\* diagnostics to their lists.
NoDiagnostics == [p \in {} |-> <<>>]

\* A clear() that leaves the registry as it is.
DiagClearNothing(reg) == reg

\* diagCollection.clear()
DiagClear(reg) == NoDiagnostics

\* diagCollection.set(entries): the entries' resources get their lists, the
\* other resources keep theirs.
DiagSet(reg, entries) ==
    [p \in (DOMAIN reg) \cup (DOMAIN entries) |->
        IF p \in DOMAIN entries THEN entries[p] ELSE reg[p]]

\* The path publishDiagnostics groups the issue under.
GroupOf(it, workspaceRoot) == toAbsolutePath(Prop(it, K_file), workspaceRoot).path

RECURSIVE DiagsOf(_, _, _)
\* The diagnostics of the issues whose resolved path is p, in their order.
DiagsOf(issues, workspaceRoot, p) ==
    IF issues = <<>> THEN <<>>
    ELSE (IF GroupOf(Head(issues), workspaceRoot) = p
          THEN <<toDiagnostic(Head(issues))>> ELSE <<>>)
         \o DiagsOf(Tail(issues), workspaceRoot, p)

\* The entries publishDiagnostics builds: the issues grouped by absolute path.
Entries(issues, workspaceRoot) ==
    [p \in {GroupOf(issues[j], workspaceRoot) : j \in 1..Len(issues)} |->
        DiagsOf(issues, workspaceRoot, p)]

\* Does publishDiagnostics throw (before it touches the registry) ?
PublishThrows(issues, workspaceRoot) ==
    \E j \in 1..Len(issues) :
        \/ ReadThrows(issues[j])
        \/ toAbsolutePath(Prop(issues[j], K_file), workspaceRoot).throws
        \/ toDiagnostic(issues[j]).throws

\* publishDiagnostics without its clear(): the entries are set over what the
\* registry holds.
publishWithoutClear(reg, issues, workspaceRoot) ==
    DiagSet(reg, Entries(issues, workspaceRoot))

\* publishDiagnostics(issues, workspaceRoot): the registry it leaves.
publishDiagnostics(reg, issues, workspaceRoot) ==
    DiagSet(DiagClear(reg), Entries(issues, workspaceRoot))

\* escapeHtml(v) throws when v is no string (it has no replace).
EscapeThrows(v) == v.t # "str"

\* Does the rendering of one issue in showReviewPanel throw ?
RenderThrows(it) ==
    \/ ReadThrows(it)
    \/ EscapeThrows(OrElse(Prop(it, K_file), JStr(<<>>)))
    \/ EscapeThrows(OrElse(Prop(it, K_message), JStr(<<>>)))
    \/ ~Falsy(Prop(it, K_suggestion)) /\ EscapeThrows(Prop(it, K_suggestion))
    \/ EscapeThrows(Prop(it, K_severity))

-----------------------------------------------------------------------------
(* Inference Client                                                        *)

\* JSON.parse(line).response, or '' when the line does not parse or the
\* property read throws (the line is null).
ResponseOf(r) ==
    IF ~r.ok \/ r.v.t = "null" THEN JStr(<<>>) ELSE Get(r.v, K_response)

\* One line of the streamed body, as the map callback sees it.
LineResponse(line) == ResponseOf(JSONParse(line))

RECURSIVE CombineLines(_)
\* filter(Boolean), map and join('') over the lines: an empty line is left
\* out, undefined and null elements join as the empty string.
CombineLines(lines) ==
    IF lines = <<>> THEN <<>>
    ELSE (IF Head(lines) = <<>> THEN <<>> ELSE ElemStr(LineResponse(Head(lines))))
         \o CombineLines(Tail(lines))

\* The text the local branch of getReview hands to safeParseReview.
Combined(body) == CombineLines(SplitLines(body))

\* The local branch of getReview once the body has been read.
LocalReview(body) == safeParseReview(Combined(body))

\* The return of the remote branch, r being what res.json() gave: throws is
\* TRUE where res.json() rejects (the body is no JSON) or the property read
\* of data throws (data is null). The issues are handed on as they came.
RemoteOf(r) ==
    IF ~r.ok \/ r.v.t = "null"
    THEN [throws |-> TRUE, summary |-> <<>>, issues |-> JArr(<<>>)]
    ELSE [throws |-> FALSE,
          summary |-> ToStr(OrElse(Get(r.v, K_summary), JStr(<<>>))),
          issues |-> OrElse(Get(r.v, K_issues), JArr(<<>>))]

\* The remote branch of getReview once res.json() has been awaited.
RemoteReview(body) == RemoteOf(JSONParse(body))

\* some(...) over the elements: the first hit or the first null decides.
FirstHit(hits, nulls) ==
    IF nulls # {} /\ (hits = {} \/ MinOf(nulls) < MinOf(hits)) THEN "throws"
    ELSE IF hits # {} THEN "yes"
    ELSE "no"

\* models?.some(m => m.name === model)
SomeNamed(models, model) ==
    IF models.t \in {"null", "undef"} THEN "no"
    ELSE IF models.t # "arr" THEN "throws"
    ELSE FirstHit({j \in 1..Len(models.a) : Prop(models.a[j], K_name) = JStr(model)},
                  {j \in 1..Len(models.a) : ReadThrows(models.a[j])})

\* json?.models?.some(m => m.name === model): "yes", "no", or "throws" where
\* models has no some method or an element read before a hit is null.
HasModel(json, model) ==
    IF json.t \in {"null", "undef"} THEN "no"
    ELSE SomeNamed(Get(json, K_models), model)

\* What ensureOllamaReady does with the answer of some().
Readiness(h) ==
    IF h = "yes" THEN "ready"
    ELSE IF h = "no" THEN "pull"
    ELSE "typeError"

\* ensureOllamaReady once res.json() has settled with r.
ReadyOf(r, model) ==
    IF ~r.ok THEN "serve" ELSE Readiness(HasModel(r.v, model))

\* The outcome of ensureOllamaReady once fetch has answered with `body`:
\* the HTTP status is not looked at.
TagsOutcome(status, body, model) == ReadyOf(JSONParse(body), model)

-----------------------------------------------------------------------------
(* JSON texts the servers of the model emit                                *)

Q == "\""

\* A character as it stands inside a JSON string literal.
EscapedChar(c) ==
    CASE c = Q -> <<"\\", Q>>
      [] c = "\\" -> <<"\\", "\\">>
      [] c = "\n" -> <<"\\", "n">>
      [] c = "\t" -> <<"\\", "t">>
      [] OTHER -> <<c>>

RECURSIVE EscapedRange(_, _, _)
\* The characters lo..hi of a string as they stand inside a JSON string
\* literal.
EscapedRange(s, lo, hi) ==
    IF lo > hi THEN <<>>
    ELSE IF lo = hi THEN EscapedChar(s[lo])
    ELSE EscapedRange(s, lo, (lo + hi) \div 2)
         \o EscapedRange(s, ((lo + hi) \div 2) + 1, hi)

Escaped(s) == EscapedRange(s, 1, Len(s))

Quoted(s) == <<Q>> \o Escaped(s) \o <<Q>>

RECURSIVE Stringify(_), StringifyElems(_), StringifyMembers(_)

StringifyMember(m) == Quoted(m.k) \o <<":">> \o Stringify(m.v)

\* JSON.stringify of a value (undefined members are left out by ObjOf).
Stringify(v) ==
    CASE v.t = "str"  -> Quoted(v.s)
      [] v.t = "num"  -> NumToStr(v.n)
      [] v.t = "bool" -> ToStr(v)
      [] v.t = "arr"  -> <<"[">> \o StringifyElems(v.a) \o <<"]">>
      [] v.t = "obj"  -> <<"{">> \o StringifyMembers(v.m) \o <<"}">>
      [] OTHER        -> <<"n", "u", "l", "l">>

StringifyElems(a) ==
    IF a = <<>> THEN <<>>
    ELSE IF Len(a) = 1 THEN Stringify(a[1])
    ELSE Stringify(a[1]) \o <<",">> \o StringifyElems(Tail(a))

StringifyMembers(m) ==
    IF m = <<>> THEN <<>>
    ELSE IF Len(m) = 1 THEN StringifyMember(m[1])
    ELSE StringifyMember(m[1]) \o <<",">> \o StringifyMembers(Tail(m))

\* An object literal: the members whose value is not undefined, in order.
ObjOf(pairs) ==
    JObj(SelectSeq([j \in 1..Len(pairs) |-> [k |-> pairs[j][1], v |-> pairs[j][2]]],
                   LAMBDA e : e.v.t # "undef"))

\* One line of the stream of /api/generate: a fragment of the model's text.
JsonLine(t) == Stringify(ObjOf(<< <<K_response, JStr(t)>> >>)) \o <<"\n">>

\* A model text streamed as two fragments, one JSON line each.
Ndjson(text) ==
    JsonLine(SubSeq(text, 1, Len(text) \div 2))
    \o JsonLine(SubSeq(text, (Len(text) \div 2) + 1, Len(text)))

\* A text wrapped in code-fence markers: prose, the opening fence with its
\* tag, the text, the closing fence, prose.
Fenced(pre, tag, text, post) ==
    pre \o Fence \o tag \o <<"\n">> \o text \o <<"\n">> \o Fence \o post

-----------------------------------------------------------------------------
(* Inputs of the model: what the user, git, the file system and the two    *)
(* servers may answer                                                      *)

ModelName == <<"m">>

Issue(file, start, end, sev, msg) ==
    ObjOf(<< <<K_file, file>>, <<K_startLine, start>>, <<K_endLine, end>>,
             <<K_severity, sev>>, <<K_message, msg>> >>)

ReviewOf(summary, issues) ==
    ObjOf(<< <<K_summary, summary>>, <<K_issues, issues>> >>)

F_x == <<"x", ".", "t", "s">>

\* The issue of the remote-proxy scenario: a/x.ts, lines 5 to 3, "weird".
IssueScenario ==
    Issue(JStr(<<"a", "/">> \o F_x), JNum(50), JNum(30),
          JStr(<<"w", "e", "i", "r", "d">>), JStr(<<"m">>))

\* An issue about exclamation marks on line 1 of file y.
IssueBang ==
    Issue(JStr(<<"y">>), JNum(10), JNum(10), JStr(S_nit), JStr(S_exclamation))

S_ok == JStr(<<"o", "k">>)

ReviewScenario == ReviewOf(S_ok, JArr(<<IssueScenario>>))
ReviewTwo      == ReviewOf(S_ok, JArr(<<IssueBang, IssueScenario>>))
ReviewClean    == ReviewOf(S_ok, JArr(<<>>))

Prose == <<"n", "o", " ", "j", "s", "o", "n">>

\* By how much the long text of the model exceeds the summary's length.
Excess == 2

LongProse == [j \in 1..(SummaryMax + Excess) |-> IF j % 7 = 0 THEN " " ELSE "x"]

RuleFour ==
    S_require \o <<" ", "4", " ">> \o S_exclamation \o <<" ">> \o S_mark \o <<"s">>

FourBangs == <<"!", "!", "!", "!">>

TagsReady   == Stringify(ObjOf(<< <<K_models, JArr(<<ObjOf(<< <<K_name, JStr(ModelName)>> >>)>>)>> >>))
TagsNoModel == Stringify(ObjOf(<< <<K_models, JArr(<<>>)>> >>))
TagsError   == Stringify(ObjOf(<< <<<<"e", "r", "r", "o", "r">>, JStr(<<"x">>)>> >>))
TagsHtml    == <<"<", "h", "t", "m", "l", ">">>

\* Texts of the model that are not the expected JSON object.
OddTexts ==
    {Prose,
     <<" ", " ">> \o Prose \o <<"\n">>,
     LongProse,
     <<"4", "2">>,
     <<"n", "u", "l", "l">>,
     <<"[", "1", "]">>,
     Stringify(ReviewOf(S_ok, JArr(<<JNum(10)>>))),
     Stringify(ReviewOf(S_ok, JArr(<<JNull>>))),
     Stringify(ReviewOf(S_ok, JArr(<<JArr(<<JNum(10)>>)>>)))}

\* The inputs of the model with two overlapping invocations.
SmallIn ==
    [acceptance |-> {<<>>},
     diffs      |-> {<<>>, <<"+", "x">>},
     remote     |-> BOOLEAN,
     tags       |-> {TagsReady, TagsNoModel},
     statuses   |-> {200, 500},
     local      |-> {Ndjson(Stringify(ReviewTwo))},
     proxy      |-> {Stringify(ReviewScenario)},
     found      |-> {FALSE},
     files      |-> {FourBangs}]

\* The inputs of the model with one invocation at a time.
RichIn ==
    [acceptance |-> {<<>>, RuleFour},
     diffs      |-> {<<>>, <<" ", "\n">>, <<"+", "x">>},
     remote     |-> BOOLEAN,
     tags       |-> {TagsReady, TagsNoModel, TagsError, TagsHtml},
     statuses   |-> {200, 500},
     local      |-> {Ndjson(Stringify(ReviewTwo)),
                     Ndjson(Fenced(<<>>, <<"j", "s", "o", "n">>, Stringify(ReviewClean), <<>>))}
                    \cup {Ndjson(t) : t \in OddTexts},
     proxy      |-> {Stringify(ReviewScenario), Stringify(ReviewClean), Prose},
     found      |-> BOOLEAN,
     files      |-> {FourBangs, <<>>}]

-----------------------------------------------------------------------------
(* The review command                                                      *)

VARIABLES
    runs,        \* the invocations of the command handler, one per slot
    registry,    \* diagCollection
    published,   \* history: the slot that published last and its issues
    norm, parse, filt   \* the functions applied on their own

vars == <<runs, registry, published, norm, parse, filt>>

Slots == {1, 2}

NoResp == [status |-> 0, body |-> <<>>]

NoReview == [summary |-> <<>>, issues |-> JArr(<<>>)]

\* An invocation: pc is the await the handler is suspended at. acceptance,
\* review, texts and idx are the handler's locals, resp the response being
\* read. History of the run: diffed and diff (git diff has answered, and
\* with what), tagsStatus (the status /api/tags answered with), text (the
\* model text handed to the Response Parser), handed and got (getReview has
\* returned, and what), outcome, errors and infos (the notifications shown),
\* panels (the panels created), sent (the endpoints a request went to),
\* wrote (the writes to the registry) and overlapped (another invocation
\* was under way at some moment of this one).
IdleRun ==
    [pc |-> "idle", acceptance |-> <<>>, diffed |-> FALSE, diff |-> <<>>,
     remote |-> FALSE, tagsStatus |-> 0, resp |-> NoResp, text |-> <<>>,
     review |-> NoReview, got |-> NoReview, handed |-> FALSE, texts |-> {},
     idx |-> 0, outcome |-> "none", errors |-> <<>>, infos |-> <<>>,
     panels |-> 0, sent |-> {}, wrote |-> 0, overlapped |-> FALSE]

IdleNorm  == [path |-> <<>>, once |-> <<>>, twice |-> <<>>, steps |-> 0]
IdleParse == [object |-> <<>>, pre |-> <<>>, tag |-> <<>>, post |-> <<>>,
              plain |-> NoReview, fenced |-> NoReview, didPlain |-> FALSE,
              didFenced |-> FALSE]
IdleFilt  == [acceptance |-> <<>>, issues |-> <<>>, texts |-> {}, out |-> <<>>,
              done |-> FALSE]

NothingPublished == [slot |-> 0, issues |-> <<>>]

Init ==
    /\ runs = [r \in Slots |-> IdleRun]
    /\ registry = NoDiagnostics
    /\ published = NothingPublished
    /\ norm = IdleNorm
    /\ parse = IdleParse
    /\ filt = IdleFilt

\* A catch that reports the error twice.
FailedTwice(run, outcome, message) ==
    [run EXCEPT !.pc = "done", !.outcome = outcome,
                !.errors = Append(Append(@, message), message)]

\* The catch of the handler: one error notification, the run is over.
Failed(run, outcome, message) ==
    [run EXCEPT !.pc = "done", !.outcome = outcome,
                !.errors = Append(@, message)]

\* The test of the diff without its trim.
IsEmptyDiffUntrimmed(diff) == diff = <<>>

\* !diff.trim()
IsEmptyDiff(diff) == Trim(diff) = <<>>

\* The elements `for (const it of review.issues)` iterates over: those of an
\* array, the characters of a string.
Elems(issues) ==
    IF issues.t = "str" THEN [j \in 1..Len(issues.s) |-> JStr(<<issues.s[j]>>)]
    ELSE issues.a

Iterable(issues) == issues.t \in {"arr", "str"}

\* showReviewPanel on the issues `kept`, up to its return: the panel is
\* created, then the issues are rendered; issues that have no map method, or
\* a field escapeHtml cannot take, throw.
Shown(run, kept) ==
    IF kept.t # "arr" \/ \E j \in 1..Len(kept.a) : RenderThrows(kept.a[j])
    THEN Failed([run EXCEPT !.review.issues = kept, !.panels = @ + 1],
                "InternalError", "TypeError")
    ELSE [run EXCEPT !.review.issues = kept, !.panels = @ + 1, !.pc = "panel"]

\* The Spec Filter in the handler, m being the match of the rule: without a
\* rule the issues are returned as they are; else issues that have no filter
\* method throw.
Filtered(run, m) ==
    IF ~m.ok THEN Shown(run, run.review.issues)
    ELSE IF run.review.issues.t # "arr" THEN Failed(run, "InternalError", "TypeError")
    ELSE Shown(run, JArr(FilterWith(run.review.issues.a, m, run.texts)))

\* The handler once the loop over the issues is over: the Spec Filter, then
\* showReviewPanel.
FilterAndShow(run) == Filtered(run, RuleMatch(run.acceptance))

\* The head of the loop at element i of els: past the last element the
\* handler goes on; else it resolves the path and opens the document.
LoopAt(run, i, els) ==
    IF i > Len(els) THEN FilterAndShow(run)
    ELSE IF ReadThrows(els[i]) \/ toAbsolutePath(Prop(els[i], K_file), Root).throws
    THEN Failed(run, "InternalError", "TypeError")
    ELSE [run EXCEPT !.pc = "openDoc", !.idx = i]

LoopFrom(run, i) == LoopAt(run, i, Elems(run.review.issues))

\* getReview returns `review` to the handler.
Handed(run, review) ==
    [run EXCEPT !.review = review, !.got = review, !.handed = TRUE]

\* getReview has returned `review`: the handler enters the loop.
Reviewed(run, review) ==
    IF ~Iterable(review.issues)
    THEN Failed(Handed(run, review), "InternalError", "TypeError")
    ELSE LoopFrom(Handed(run, review), 1)

\* The document of the issue `it` has been opened, or not: a text is stored
\* under the issue's file (the workspace folder itself is no document).
Stored(run, it, found, text) ==
    IF found /\ GroupOf(it, Root) # Root
    THEN [run EXCEPT !.texts = MapSet(@, Prop(it, K_file), text)]
    ELSE run

\* The run once publishDiagnostics has returned: the closing message.
Completed(run) ==
    [run EXCEPT !.pc = "done", !.outcome = "Complete", !.wrote = @ + 1,
                !.infos = Append(@, "Complete")]

\* Is the invocation suspended at an await ?
Suspended(run) == run.pc \notin {"idle", "done"}

\* The handler up to its first await: without a workspace folder it shows an
\* error and returns; else readAcceptance is awaited.
Started(run, ws) ==
    IF ws THEN [run EXCEPT !.pc = "acceptance"]
    ELSE Failed(run, "NoWorkspace", "NoWorkspace")

\* The command is invoked in a free slot, maybe while the invocation of
\* another slot is suspended.
Invoke(r) ==
    /\ ~Suspended(runs[r])
    /\ \E ws \in BOOLEAN :
          runs' = [s \in Slots |->
                      IF s = r
                      THEN Started([IdleRun EXCEPT !.overlapped =
                                       ws /\ \E o \in Slots \ {r} : Suspended(runs[o])],
                                   ws)
                      ELSE IF ws /\ Suspended(runs[s])
                      THEN [runs[s] EXCEPT !.overlapped = TRUE]
                      ELSE runs[s]]
    /\ UNCHANGED <<registry, published, norm, parse, filt>>

\* readAcceptance resolves with the text of the criteria file or of the input
\* box ('' when the user declines); getGitDiff runs git --version.
AcceptanceRead(r, in) ==
    /\ runs[r].pc = "acceptance"
    /\ \E text \in in.acceptance :
          runs' = [runs EXCEPT ![r].acceptance = text, ![r].pc = "gitVersion"]
    /\ UNCHANGED <<registry, published, norm, parse, filt>>

\* git --version has ended: failure is "Git not found"; else git diff runs.
GitVersionDone(r) ==
    /\ runs[r].pc = "gitVersion"
    /\ \E ok \in BOOLEAN :
          runs' = [runs EXCEPT ![r] =
                      IF ok THEN [@ EXCEPT !.pc = "gitDiff"]
                      ELSE Failed(@, "ToolMissing", "GitNotFound")]
    /\ UNCHANGED <<registry, published, norm, parse, filt>>

\* The handler once git diff has answered with `diff`: an empty diff ends the
\* run with the information message; else the prompt is built, the settings
\* are read and getReview sends its first request.
Diffed(run, diff, remoteUrl) ==
    IF IsEmptyDiff(diff)
    THEN [run EXCEPT !.pc = "done", !.outcome = "EmptyDiff", !.diffed = TRUE,
                     !.diff = diff, !.infos = Append(@, "NoChanges")]
    ELSE IF remoteUrl
    THEN [run EXCEPT !.pc = "remote", !.remote = TRUE, !.diffed = TRUE,
                     !.diff = diff, !.sent = @ \cup {"remote"}]
    ELSE [run EXCEPT !.pc = "tags", !.diffed = TRUE, !.diff = diff,
                     !.sent = @ \cup {"tags"}]

\* git diff has ended; it may fail (no repository).
GitDiffDone(r, in) ==
    /\ runs[r].pc = "gitDiff"
    /\ \E ok \in BOOLEAN, diff \in in.diffs, remoteUrl \in in.remote :
          runs' = [runs EXCEPT ![r] =
                      IF ~ok THEN Failed(@, "DiffFailed", "GitDiffFailed")
                      ELSE Diffed(@, diff, remoteUrl)]
    /\ UNCHANGED <<registry, published, norm, parse, filt>>

\* fetch of /api/tags has settled: a rejection is "not reachable"; else
\* res.json() is awaited.
TagsFetched(r, in) ==
    /\ runs[r].pc = "tags"
    /\ \E ok \in BOOLEAN, status \in in.statuses, body \in in.tags :
          runs' = [runs EXCEPT ![r] =
                      IF ~ok THEN Failed(@, "ModelUnavailable", "OllamaServe")
                      ELSE [@ EXCEPT !.pc = "tagsJson", !.tagsStatus = status,
                                     !.resp = [status |-> status, body |-> body]]]
    /\ UNCHANGED <<registry, published, norm, parse, filt>>

\* The handler once ensureOllamaReady has settled with the outcome o; with
\* the model present getReview posts to /api/generate.
Preflighted(run, o) ==
    IF o = "serve" THEN Failed(run, "ModelUnavailable", "OllamaServe")
    ELSE IF o = "pull" THEN Failed(run, "ModelUnavailable", "OllamaPull")
    ELSE IF o = "typeError" THEN Failed(run, "InternalError", "TypeError")
    ELSE [run EXCEPT !.pc = "generate", !.sent = @ \cup {"generate"}]

\* res.json() of /api/tags has settled.
TagsParsed(r) ==
    /\ runs[r].pc = "tagsJson"
    /\ runs' = [runs EXCEPT ![r] =
                   Preflighted([@ EXCEPT !.resp = NoResp],
                               TagsOutcome(@.resp.status, @.resp.body, ModelName))]
    /\ UNCHANGED <<registry, published, norm, parse, filt>>

\* fetch of /api/generate has settled: a rejection fails the run; a status
\* that is not ok awaits safeText, an ok one awaits res.text().
GenerateFetched(r, in) ==
    /\ runs[r].pc = "generate"
    /\ \E ok \in BOOLEAN, status \in in.statuses, body \in in.local :
          runs' = [runs EXCEPT ![r] =
                      IF ~ok THEN Failed(@, "NetworkError", "FetchFailed")
                      ELSE [@ EXCEPT !.pc = IF status = 200 THEN "genText" ELSE "genError",
                                     !.resp = [status |-> status, body |-> body]]]
    /\ UNCHANGED <<registry, published, norm, parse, filt>>

\* safeText has resolved: the "Ollama HTTP" error.
GenerateErrorRead(r) ==
    /\ runs[r].pc = "genError"
    /\ runs' = [runs EXCEPT ![r] =
                   Failed([@ EXCEPT !.resp = NoResp], "LocalHttpError", "OllamaHttp")]
    /\ UNCHANGED <<registry, published, norm, parse, filt>>

\* res.text() has resolved: the fragments are combined and parsed.
GenerateRead(r) ==
    /\ runs[r].pc = "genText"
    /\ runs' = [runs EXCEPT ![r] =
                   Reviewed([@ EXCEPT !.resp = NoResp,
                                      !.text = Combined(runs[r].resp.body)],
                            LocalReview(runs[r].resp.body))]
    /\ UNCHANGED <<registry, published, norm, parse, filt>>

\* fetch of the remote proxy has settled.
RemoteFetched(r, in) ==
    /\ runs[r].pc = "remote"
    /\ \E ok \in BOOLEAN, status \in in.statuses, body \in in.proxy :
          runs' = [runs EXCEPT ![r] =
                      IF ~ok THEN Failed(@, "NetworkError", "FetchFailed")
                      ELSE [@ EXCEPT !.pc = IF status = 200 THEN "remoteJson"
                                            ELSE "remoteError",
                                     !.resp = [status |-> status, body |-> body]]]
    /\ UNCHANGED <<registry, published, norm, parse, filt>>

\* safeText has resolved: the "Remote reviewer HTTP" error.
RemoteErrorRead(r) ==
    /\ runs[r].pc = "remoteError"
    /\ runs' = [runs EXCEPT ![r] =
                   Failed([@ EXCEPT !.resp = NoResp], "RemoteError", "RemoteHttp")]
    /\ UNCHANGED <<registry, published, norm, parse, filt>>

\* The handler once the remote branch has settled with rv.
RemoteHanded(run, rv) ==
    IF rv.throws THEN Failed(run, "InternalError", "BadRemoteBody")
    ELSE Reviewed(run, [summary |-> rv.summary, issues |-> rv.issues])

\* res.json() of the remote proxy has settled: the body is handed on as it is.
RemoteParsed(r) ==
    /\ runs[r].pc = "remoteJson"
    /\ runs' = [runs EXCEPT ![r] =
                   RemoteHanded([@ EXCEPT !.resp = NoResp], RemoteReview(@.resp.body))]
    /\ UNCHANGED <<registry, published, norm, parse, filt>>

\* openTextDocument has settled for the issue at idx: a rejection is ignored,
\* a document's text is stored under the issue's file; the loop goes on.
DocOpened(r, in) ==
    /\ runs[r].pc = "openDoc"
    /\ \E found \in in.found, text \in in.files :
          runs' = [runs EXCEPT ![r] =
                      LoopFrom(Stored(@, Elems(@.review.issues)[@.idx], found, text),
                               @.idx + 1)]
    /\ UNCHANGED <<registry, published, norm, parse, filt>>

\* showReviewPanel has resolved: publishDiagnostics and the closing message,
\* in one step (there is no await between them).
PanelShown(r) ==
    /\ runs[r].pc = "panel"
    /\ IF PublishThrows(runs[r].review.issues.a, Root)
       THEN /\ runs' = [runs EXCEPT ![r] = Failed(@, "InternalError", "TypeError")]
            /\ UNCHANGED <<registry, published>>
       ELSE /\ registry' = publishDiagnostics(registry, runs[r].review.issues.a, Root)
            /\ published' = [slot |-> r, issues |-> runs[r].review.issues.a]
            /\ runs' = [runs EXCEPT ![r] = Completed(@)]
    /\ UNCHANGED <<norm, parse, filt>>

Step(r, in) ==
    \/ Invoke(r)
    \/ AcceptanceRead(r, in)
    \/ GitVersionDone(r)
    \/ GitDiffDone(r, in)
    \/ TagsFetched(r, in)
    \/ TagsParsed(r)
    \/ GenerateFetched(r, in)
    \/ GenerateErrorRead(r)
    \/ GenerateRead(r)
    \/ RemoteFetched(r, in)
    \/ RemoteErrorRead(r)
    \/ RemoteParsed(r)
    \/ DocOpened(r, in)
    \/ PanelShown(r)

Next == \E r \in Slots : Step(r, SmallIn)

Spec == Init /\ [][Next]_vars

\* One invocation at a time, with the richer inputs.
NextOne == Step(1, RichIn)

SpecOne == Init /\ [][NextOne]_vars

-----------------------------------------------------------------------------
(* The file-path normalisation applied on its own                          *)

PathChars == {"a", "b", ".", "/", "x", " "}

\* The longest path the normalisation is applied to.
MaxPathLen == 4

Paths == UNION {[1..n -> PathChars] : n \in 0..MaxPathLen}

InitNorm ==
    /\ runs = [r \in Slots |-> IdleRun]
    /\ registry = NoDiagnostics
    /\ published = NothingPublished
    /\ norm \in {[IdleNorm EXCEPT !.path = p] : p \in Paths}
    /\ parse = IdleParse
    /\ filt = IdleFilt

\* The file of an issue is normalised.
NormalizeOnce ==
    /\ norm.steps = 0
    /\ norm' = [norm EXCEPT !.once = NormalizeFile(JStr(norm.path)), !.steps = 1]
    /\ UNCHANGED <<runs, registry, published, parse, filt>>

\* The normalised file is normalised again.
NormalizeTwice ==
    /\ norm.steps = 1
    /\ norm' = [norm EXCEPT !.twice = NormalizeFile(JStr(norm.once)), !.steps = 2]
    /\ UNCHANGED <<runs, registry, published, parse, filt>>

NextNorm == NormalizeOnce \/ NormalizeTwice

SpecNorm == InitNorm /\ [][NextNorm]_vars

-----------------------------------------------------------------------------
(* The Response Parser applied to an object, bare and in a code fence      *)

S_json == <<"j", "s", "o", "n">>

\* A summary that holds three backquotes.
S_quoted == <<"a">> \o Fence \o <<"b">>

Summaries == {<<"o", "k">>, <<>>, <<"}", " ", "{">>, S_quoted, <<"a", "\n", "b">>}

IssueLists == {<<>>, <<IssueScenario>>, <<IssueBang, IssueScenario>>}

\* The JSON objects the model may answer with.
ObjectTexts ==
    {Stringify(ReviewOf(JStr(s), JArr(l))) : s \in Summaries, l \in IssueLists}

Tags == {<<>>, S_json, <<"J", "S", "O", "N">>}

Before == {<<>>, <<"H", "e", "r", "e", ":", "\n">>}

After == {<<>>, <<"\n", "D", "o", "n", "e", ".">>}

InitParse ==
    /\ runs = [r \in Slots |-> IdleRun]
    /\ registry = NoDiagnostics
    /\ published = NothingPublished
    /\ norm = IdleNorm
    /\ parse \in {[IdleParse EXCEPT !.object = o] : o \in ObjectTexts}
    /\ filt = IdleFilt

\* The object is parsed as it is.
ParsePlain ==
    /\ ~parse.didPlain
    /\ parse' = [parse EXCEPT !.plain = safeParseReview(parse.object),
                              !.didPlain = TRUE]
    /\ UNCHANGED <<runs, registry, published, norm, filt>>

\* The object is parsed wrapped in a code fence.
ParseFenced ==
    /\ ~parse.didFenced
    /\ \E pre \in Before, tag \in Tags, post \in After :
          parse' = [parse EXCEPT
                       !.pre = pre, !.tag = tag, !.post = post,
                       !.fenced = safeParseReview(Fenced(pre, tag, parse.object, post)),
                       !.didFenced = TRUE]
    /\ UNCHANGED <<runs, registry, published, norm, filt>>

NextParse == ParsePlain \/ ParseFenced

SpecParse == InitParse /\ [][NextParse]_vars

-----------------------------------------------------------------------------
(* The Spec Filter applied on its own                                      *)

RuleZero ==
    S_require \o <<" ", "0", " ">> \o S_exclamation \o <<" ">> \o S_mark \o <<"s">>

RuleOne ==
    <<"W", "e", " ", "R", "e", "q", "u", "i", "r", "e", " ", "1", " ">>
    \o S_exclamation \o S_mark \o <<".">>

FilterRules == {<<>>, S_exclamation, RuleZero, RuleOne, RuleFour}

\* An issue on line 2 of file y whose message mentions the marks in capitals.
IssueSecondLine ==
    Issue(JStr(<<"y">>), JNum(20), JNum(20), JStr(S_major),
          JStr(<<"E", "x", "c", "l", "a", "m", "a", "t", "i", "o", "n", "!">>))

FilterIssues == {IssueBang, IssueSecondLine, SanitizeIssue(IssueScenario)}

\* The longest list of issues the filter is applied to.
MaxIssues == 2

IssueSeqs == UNION {[1..n -> FilterIssues] : n \in 0..MaxIssues}

\* The texts file y may have; file x.ts has not been opened.
FileTexts == {<<>>, <<"!">>, FourBangs, <<"!", "\n", "!", "!", "!", "!">>}

TextMaps == {{}} \cup {{[key |-> JStr(<<"y">>), text |-> t]} : t \in FileTexts}

InitFilter ==
    /\ runs = [r \in Slots |-> IdleRun]
    /\ registry = NoDiagnostics
    /\ published = NothingPublished
    /\ norm = IdleNorm
    /\ parse = IdleParse
    /\ filt \in {[IdleFilt EXCEPT !.acceptance = a, !.issues = l, !.texts = m] :
                    a \in FilterRules, l \in IssueSeqs, m \in TextMaps}

\* The filter is applied.
ApplyFilter ==
    /\ ~filt.done
    /\ filt' = [filt EXCEPT
                   !.out = filterIssuesAgainstSpec(filt.issues, filt.acceptance, filt.texts),
                   !.done = TRUE]
    /\ UNCHANGED <<runs, registry, published, norm, parse>>

NextFilter == ApplyFilter

SpecFilter == InitFilter /\ [][NextFilter]_vars

-----------------------------------------------------------------------------
(* Properties                                                              *)

\* The issues a review holds, as the handler iterates over them.
IssuesIn(review) == IF Iterable(review.issues) THEN Elems(review.issues) ELSE <<>>

\* A path that carries none of the prefixes the normalisation strips.
PrefixFree(p) ==
    /\ ~MatchAt(p, 1, <<"a", "/">>)
    /\ ~MatchAt(p, 1, <<"b", "/">>)
    /\ ~MatchAt(p, 1, <<".", "/">>)
    /\ ~MatchAt(p, 1, <<"/">>)

\* An issue that has been clamped and defaulted: startLine a whole number
\* >= 1, endLine >= startLine, a known severity, a file without prefixes.
Clamped(it) ==
    /\ Prop(it, K_startLine).t = "num"
    /\ Prop(it, K_startLine).n % 10 = 0
    /\ Prop(it, K_startLine).n >= 10
    /\ Prop(it, K_endLine).t = "num"
    /\ Prop(it, K_endLine).n >= Prop(it, K_startLine).n
    /\ KnownSeverity(Prop(it, K_severity))
    /\ Prop(it, K_file).t = "str"
    /\ PrefixFree(Prop(it, K_file).s)

\* The issue of the scenario as the claim expects it after getReview.
ScenarioClamped(it) ==
    /\ Prop(it, K_file) = JStr(F_x)
    /\ Prop(it, K_endLine) = JNum(50)
    /\ Prop(it, K_severity) = JStr(S_major)

\* C1: every issue of the review that getReview hands to the handler is
\* clamped and defaulted, in local and in remote mode; the issue of the
\* remote scenario (the only one with message "m" a proxy of the model
\* answers with) has file x.ts, endLine 5 and severity major.
C1_HandedIssuesClamped ==
    \A r \in Slots :
        runs[r].handed =>
            \A j \in 1..Len(IssuesIn(runs[r].got)) :
                /\ Clamped(IssuesIn(runs[r].got)[j])
                /\ (runs[r].remote /\ Prop(IssuesIn(runs[r].got)[j], K_message) = JStr(<<"m">>))
                      => ScenarioClamped(IssuesIn(runs[r].got)[j])

\* The issues a finished run has: those of its review.
FinalIssues(run) == IF run.review.issues.t = "arr" THEN run.review.issues.a ELSE <<>>

\* C2 as stated: once a run has finished, whatever its outcome, the registry
\* holds exactly the diagnostics of that run's issues, grouped by resolved
\* absolute path, and nothing an earlier run published.
C2_RegistryOfFinishedRun ==
    runs[1].pc = "done" => registry = Entries(FinalIssues(runs[1]), Root)

\* C2 as amended: a run that finishes with the closing message leaves in the
\* registry exactly the diagnostics of its issues, grouped by resolved
\* absolute path, whatever the registry held before; a run that finishes in
\* any other way leaves the registry as it found it at that step, and no
\* other step of a run changes the registry.
C2_ReplacedOrUntouched ==
    [][\A r \in Slots :
          IF runs[r].pc # "done" /\ runs'[r].pc = "done" /\ runs'[r].outcome = "Complete"
          THEN registry' = Entries(FinalIssues(runs'[r]), Root)
          ELSE runs[r] # runs'[r] => registry' = registry]_vars

\* A run has failed at the remote proxy while the registry holds the
\* diagnostics an earlier run published.
C2_FailedRunKeptRegistry ==
    /\ runs[1].pc = "done"
    /\ runs[1].outcome = "RemoteError"
    /\ registry # NoDiagnostics
    /\ registry = Entries(published.issues, Root)

\* C3: when git diff answers with an empty or white-space-only text the run
\* ends with the "No local changes" information and nothing else: no request
\* to the local or the remote endpoint, no error, no panel, no write.
C3_EmptyDiffOnlyInforms ==
    \A r \in Slots :
        (runs[r].diffed /\ Trim(runs[r].diff) = <<>>) =>
            /\ runs[r].pc = "done"
            /\ runs[r].outcome = "EmptyDiff"
            /\ runs[r].infos = <<"NoChanges">>
            /\ runs[r].errors = <<>>
            /\ runs[r].sent = {}
            /\ runs[r].panels = 0
            /\ runs[r].wrote = 0

\* A run has ended on a diff of white space only.
C3_WhiteSpaceDiffEnded ==
    /\ runs[1].diffed
    /\ runs[1].diff = <<" ", "\n">>
    /\ runs[1].outcome = "EmptyDiff"

StageFailures == {"NoWorkspace", "ToolMissing", "ModelUnavailable", "RemoteError"}

\* C4: a run that fails with NoWorkspace, ToolMissing, ModelUnavailable or
\* RemoteError has shown exactly one error notification, has created no
\* panel, has not written the registry and has not shown the closing message.
C4_StageFailureOneError ==
    \A r \in Slots :
        runs[r].outcome \in StageFailures =>
            /\ runs[r].pc = "done"
            /\ Len(runs[r].errors) = 1
            /\ runs[r].panels = 0
            /\ runs[r].wrote = 0
            /\ \A k \in 1..Len(runs[r].infos) : runs[r].infos[k] # "Complete"

\* A run has failed because the model is not pulled, the registry holding
\* what an earlier run published.
C4_ModelNotPulled ==
    /\ runs[1].outcome = "ModelUnavailable"
    /\ runs[1].errors = <<"OllamaPull">>
    /\ registry # NoDiagnostics

\* C5: in local mode, once /api/tags has answered with an HTTP error status,
\* whatever its body, the run fails with the message that tells the user to
\* run `ollama serve`, and no request goes to /api/generate.
C5_TagsErrorStatusFails ==
    \A r \in Slots :
        (runs[r].tagsStatus >= 400 /\ runs[r].pc # "tagsJson") =>
            /\ runs[r].pc = "done"
            /\ runs[r].outcome = "ModelUnavailable"
            /\ runs[r].errors = <<"OllamaServe">>
            /\ "generate" \notin runs[r].sent

\* text.slice(0, 800) of a text, written out.
First800(text) == [j \in 1..(IF Len(text) < 800 THEN Len(text) ELSE 800) |-> text[j]]

\* What JSON.parse makes of the text the parser extracts from a model text.
Extracted(text) == JSONParse(JsonStr(Candidate(Trim(text))))

\* Has the array of issues an element that is no object ?
HasNonObject(v) ==
    Get(v, K_issues).t = "arr" /\ \E j \in 1..Len(Get(v, K_issues).a) : Get(v, K_issues).a[j].t # "obj"

\* A model text that is not parseable as the expected JSON object: it is no
\* JSON, or its top level is no object, or its issues hold a non-object.
Malformed(text) ==
    \/ ~Extracted(text).ok
    \/ Extracted(text).v.t # "obj"
    \/ HasNonObject(Extracted(text).v)

\* The run has completed normally with a panel, no issue and no error.
CompletedEmpty(run) ==
    /\ run.outcome = "Complete"
    /\ run.panels = 1
    /\ run.errors = <<>>
    /\ run.review.issues = JArr(<<>>)

\* C6 as stated: for a model text that is not parseable as the expected
\* JSON object the parser returns the first 800 characters of the text as
\* summary and no issues, and the run then completes with a panel, no
\* issue and no error.
C6_MalformedGivesFallback ==
    \A r \in Slots :
        (runs[r].handed /\ ~runs[r].remote /\ Malformed(runs[r].text)) =>
            /\ runs[r].got = [summary |-> First800(runs[r].text), issues |-> JArr(<<>>)]
            /\ runs[r].pc \in {"panel", "done"}
            /\ runs[r].pc = "done" => CompletedEmpty(runs[r])

\* Does the try block of the parser throw on the value JSON.parse gave: it
\* is null, or its array of issues holds null or a primitive ?
Throwing(v) ==
    \/ v.t = "null"
    \/ Get(v, K_issues).t = "arr"
          /\ \E j \in 1..Len(Get(v, K_issues).a) : Get(v, K_issues).a[j].t \notin {"obj", "arr"}

\* C6 as amended: the parser never throws. For a model text that is no JSON
\* after extraction, or is JSON null, or whose issues hold null or a
\* primitive, it returns the first 800 characters of the trimmed text as
\* summary and no issues; for a JSON value that is a number, a string, a
\* boolean or an array without braces it returns an empty summary and no
\* issues. In both cases the run then completes with a panel, no issue and
\* no error.
C6_FallbackOnThrow ==
    \A r \in Slots :
        (runs[r].handed /\ ~runs[r].remote) =>
            /\ (~Extracted(runs[r].text).ok \/ Throwing(Extracted(runs[r].text).v))
                  => /\ runs[r].got = [summary |-> First800(Trim(runs[r].text)),
                                       issues |-> JArr(<<>>)]
                     /\ runs[r].pc \in {"panel", "done"}
                     /\ runs[r].pc = "done" => CompletedEmpty(runs[r])
            /\ (Extracted(runs[r].text).ok
                  /\ Extracted(runs[r].text).v.t \in {"num", "str", "bool", "arr"})
                  => /\ runs[r].got = [summary |-> <<>>, issues |-> JArr(<<>>)]
                     /\ runs[r].pc \in {"panel", "done"}
                     /\ runs[r].pc = "done" => CompletedEmpty(runs[r])

\* A run has completed on a model text longer than the summary may be that
\* is no JSON: the summary is cut.
C6_LongProseCompleted ==
    /\ runs[1].outcome = "Complete"
    /\ ~runs[1].remote
    /\ Len(runs[1].text) > SummaryMax
    /\ ~Extracted(runs[1].text).ok
    /\ Len(runs[1].got.summary) = SummaryMax
    /\ runs[1].panels = 1

\* Does the claim drop the issue: there is a rule, the text of the issue's
\* file is in the Map, the line at index max(0, startLine - 1) of it holds
\* exactly the required number of "!", and the message mentions "exclamation".
ClaimDrops(it, acceptance, texts) ==
    /\ RuleMatch(acceptance).ok
    /\ MapHas(texts, Prop(it, K_file))
    /\ CountBang(LineAt(MapGet(texts, Prop(it, K_file)), Prop(it, K_startLine)))
          = DigitsValue(RuleMatch(acceptance).digits)
    /\ MentionsExclamation(Prop(it, K_message))

RECURSIVE ClaimKeeps(_, _, _)
\* The issues the claim keeps, in their order.
ClaimKeeps(issues, acceptance, texts) ==
    IF issues = <<>> THEN <<>>
    ELSE (IF ClaimDrops(Head(issues), acceptance, texts) THEN <<>> ELSE <<Head(issues)>>)
         \o ClaimKeeps(Tail(issues), acceptance, texts)

\* C7: the Spec Filter returns its input, in order, without exactly the
\* issues for which there is a rule "require N exclamation marks", the text
\* of the issue's file is available, its line at index max(0, startLine - 1)
\* holds exactly N "!" and the message mentions "exclamation".
C7_DropsExactly ==
    filt.done => filt.out = ClaimKeeps(filt.issues, filt.acceptance, filt.texts)

\* C8: a JSON object wrapped in a code fence, with or without the json tag
\* and with or without prose around the fence, parses to the same review as
\* the object on its own, whatever its string fields hold.
C8_FencedParsesAsBare ==
    (parse.didPlain /\ parse.didFenced) => parse.fenced = parse.plain

\* A path the normalisation has nothing to do on: no white space at its
\* ends and none of the prefixes.
Clean(p) == Trim(p) = p /\ PrefixFree(p)

\* C9 as stated: the normalisation is idempotent. A path that is already
\* normalised (read in the claim's favour: no leading a/, b/, ./ or / and
\* no white space at its ends) is returned unchanged, and the result of
\* normalising any path is returned unchanged when normalised again.
C9_NormalizeIdempotent ==
    /\ (norm.steps >= 1 /\ Clean(norm.path)) => norm.once = norm.path
    /\ norm.steps = 2 => norm.twice = norm.once

\* C9 as amended: a path without white space at its ends and without leading
\* a/, b/, ./ or / is returned unchanged; normalising strips each prefix at
\* most once, so normalising the result again changes nothing exactly when
\* the result is such a path (for a/a/x it is not).
C9_CleanIsFixedPoint ==
    /\ (norm.steps >= 1 /\ Clean(norm.path)) => norm.once = norm.path
    /\ norm.steps = 2 => (norm.twice = norm.once <=> Clean(norm.once))

\* A path with a prefix has been normalised to a clean path, which the second
\* normalisation has left alone.
C9_PrefixStripped ==
    /\ norm.steps = 2
    /\ ~PrefixFree(norm.path)
    /\ Clean(norm.once)
    /\ norm.once # <<>>
    /\ norm.twice = norm.once

\* C10: with two overlapping invocations the registry holds at every moment
\* the complete diagnostics of the issues of the run that published last,
\* or nothing when no run has published, never entries of two runs; once
\* both runs have finished with the closing message it holds those of the
\* run that published last.
C10_RegistryOfOneRun ==
    /\ registry = Entries(published.issues, Root)
    /\ published.slot = 0 => registry = NoDiagnostics
    /\ \A r \in Slots :
          (/\ published.slot = r
           /\ \A s \in Slots : runs[s].pc = "done" /\ runs[s].outcome = "Complete")
             => registry = Entries(FinalIssues(runs[r]), Root)

\* Two invocations that overlapped have both finished with the closing
\* message; the one of slot 1 published last, the registry holds its
\* diagnostics and they are not those of the other run.
C10_OverlappedBothPublished ==
    /\ \A s \in Slots : /\ runs[s].pc = "done"
                        /\ runs[s].outcome = "Complete"
                        /\ runs[s].overlapped
    /\ published.slot = 1
    /\ registry = Entries(FinalIssues(runs[1]), Root)
    /\ DOMAIN registry # DOMAIN Entries(FinalIssues(runs[2]), Root)

=============================================================================
